---- MODULE Spec2Model ----
(***************************************************************************)
(* Ledger and settlement core of the spot exchange service                 *)
(* (package spot: setAsset, setBalance, setTrade, setTransaction).         *)
(*                                                                         *)
(* Every database table is a sequence of rows in insertion order (the      *)
(* order of the serial id).  Every SQL statement is one atomic step; a     *)
(* handler made of several statements is several steps, so that requests   *)
(* served by different goroutines interleave between statements.  A        *)
(* statement either succeeds or fails with a storage error; the set Oks    *)
(* handed to an action says which outcomes the storage can produce.        *)
(* Amounts are integers: a number of smallest units.                       *)
(***************************************************************************)
EXTENDS Integers, Sequences, FiniteSets, TLC

\* ------------------------------------------------------------------ bounds
\* Calls a behaviour may start (caps the growth of every table).
MaxCalls == 4
\* Largest quantity handed to setBalance.
MaxQty == 2
\* Calls of setTrade a behaviour may start.
MaxSettles == 2
\* Calls of setTransaction a behaviour may start.
MaxIngests == 3
\* Calls of setReserve, setReserveLock and setReserveUnlock a behaviour may start.
MaxReserveCalls == 3
\* Calls of setOrder a behaviour may start.
MaxOrders == 2

\* ------------------------------------------------------------------ domains
Workers == {"w1", "w2"}
Users == {1}
Symbols == {"btc", "usd"}
Quantities == 1..MaxQty
Reliable == {TRUE}
Flaky == {TRUE, FALSE}

\* pbspot.Balance
Balance_PLUS == "PLUS"
Balance_MINUS == "MINUS"

VARIABLES
  assets,     \* table assets: rows [user_id, symbol, balance]
  lw,         \* per worker: position and arguments of its ledger call
  applied,    \* history: per (user, symbol), sum of the signed deltas executed on a row
  trades,     \* table trades: rows [assigning, base_unit, quote_unit, price, quantity]
  transfers,  \* table transfers: rows [order_id, assigning, user_id, base_unit, quote_unit, price, quantity, fees]
  currencies, \* table currencies: symbol -> [fees_trade, fees_discount, fees_charges]
  published,  \* messages handed to the broker, counted per channel
  tw,         \* per worker: position, arguments and locals of its setTrade call
  transactions, \* table transactions: rows [id, hash, allocation, assignment, status, chain_id]
  xw,         \* per worker: position, arguments and locals of its setTransaction call
  uuids,      \* hashes generated so far by uuid.NewV1
  credits,    \* history: per hash, how often confirmation invoked the balance/reserve adjust
  reserves,   \* table reserves: rows [user_id, symbol, platform, protocol, address, value, lock]
  rw,         \* per worker: position and arguments of its reserve call
  holders,    \* history: per lock key, the workers whose lock set the flag since the last unlock
  undo,       \* history: per worker, its last executed setBalance and the balance before it
  orders,     \* table orders: rows [id, assigning, base_unit, quote_unit, price, value, quantity, user_id]
  ow,         \* the order store's caller: its last setOrder and getOrder
  fw,         \* the fee calculator's caller: its last getFees or getSum
  gw,         \* the reader: its last getBalance or getReserve and what it returned
  ncalls      \* calls started so far

ledgerVars == <<assets, lw, applied>>
tradeTables == <<trades, transfers, currencies, published>>
tradeVars == <<trades, transfers, currencies, published, tw>>
txVars == <<transactions, xw, uuids, credits>>
reserveVars == <<reserves, rw, holders>>
orderVars == <<orders, ow>>
vars == <<assets, lw, applied, trades, transfers, currencies, published, tw,
          transactions, xw, uuids, credits, reserves, rw, holders, undo, orders, ow,
          fw, gw, ncalls>>

\* ------------------------------------------------------------------ helpers
Min(S) == CHOOSE x \in S : \A y \in S : x <= y

\* ------------------------------------------------------------------ assets table
AssetMatch(symbol, userId, r) == r.symbol = symbol /\ r.user_id = userId

AssetRows(rows, symbol, userId) ==
  {i \in 1..Len(rows) : AssetMatch(symbol, userId, rows[i])}

\* A faulty existence test that never finds the row.
getAssetNever(rows, symbol, userId) == FALSE

\* getAsset: select exists(select balance from assets where symbol and user_id)
getAsset(rows, symbol, userId) == AssetRows(rows, symbol, userId) # {}

\* A faulty getBalance: a key without a row is answered with -1.
getBalanceOrMinusOne(rows, symbol, userId) ==
  IF AssetRows(rows, symbol, userId) = {}
  THEN 0 - 1
  ELSE rows[Min(AssetRows(rows, symbol, userId))].balance

\* getBalance: QueryRow scans the first matching row; with no row the Scan
\* fails, the error is dropped and the zero value is returned.
getBalance(rows, symbol, userId) ==
  IF AssetRows(rows, symbol, userId) = {}
  THEN 0
  ELSE rows[Min(AssetRows(rows, symbol, userId))].balance

\* insert into assets (user_id, symbol): the balance column takes its default.
InsertAsset(rows, symbol, userId) ==
  Append(rows, [user_id |-> userId, symbol |-> symbol, balance |-> 0])

\* A faulty update that stores the quantity instead of adding it.
UpdateBalanceOverwrite(rows, symbol, userId, quantity, cross) ==
  [i \in 1..Len(rows) |->
     IF AssetMatch(symbol, userId, rows[i])
     THEN [rows[i] EXCEPT !.balance =
             IF cross = Balance_PLUS THEN quantity ELSE @ - quantity]
     ELSE rows[i]]

\* A faulty update that creates the row of a key that has none.
UpdateBalanceUpsert(rows, symbol, userId, quantity, cross) ==
  IF \E i \in 1..Len(rows) : AssetMatch(symbol, userId, rows[i])
  THEN [i \in 1..Len(rows) |->
          IF AssetMatch(symbol, userId, rows[i])
          THEN [rows[i] EXCEPT !.balance =
                  IF cross = Balance_PLUS THEN @ + quantity ELSE @ - quantity]
          ELSE rows[i]]
  ELSE Append(rows, [user_id |-> userId, symbol |-> symbol,
                     balance |-> IF cross = Balance_PLUS THEN quantity ELSE 0 - quantity])

\* The statement of setBalance:
\*   update assets set balance = balance +/- $2 where symbol = $1 and user_id = $3
\* It changes every matching row, and no row when none matches.
UpdateBalance(rows, symbol, userId, quantity, cross) ==
  [i \in 1..Len(rows) |->
     IF AssetMatch(symbol, userId, rows[i])
     THEN [rows[i] EXCEPT !.balance =
             IF cross = Balance_PLUS THEN @ + quantity
             ELSE IF cross = Balance_MINUS THEN @ - quantity
             ELSE @]
     ELSE rows[i]]

Signed(quantity, cross) ==
  IF cross = Balance_PLUS THEN quantity ELSE 0 - quantity

\* ------------------------------------------------------------------ ledger workers
LwIdle ==
  [pc |-> "idle", op |-> "none", symbol |-> "btc", userId |-> 1, qty |-> 0,
   cross |-> Balance_PLUS, strict |-> FALSE, ret |-> "none", raced |-> FALSE]

LwCall(op, symbol, userId, qty, cross, strict, pc) ==
  [pc |-> pc, op |-> op, symbol |-> symbol, userId |-> userId, qty |-> qty,
   cross |-> cross, strict |-> strict, ret |-> "none", raced |-> FALSE]

\* setAsset, first statement: select id from assets where symbol and user_id.
\* A row: the call returns status 700991 when error is set, nil otherwise.
\* No row: the call goes on to the insert.
SetAssetQuery(w, Oks) ==
  /\ lw[w].pc = "idle"
  /\ ncalls < MaxCalls
  /\ \E symbol \in Symbols, userId \in Users, error \in BOOLEAN, ok \in Oks :
       LET c == LwCall("setAsset", symbol, userId, 0, Balance_PLUS, error, "idle") IN
       lw' = [lw EXCEPT ![w] =
                IF ~ok THEN [c EXCEPT !.ret = "StorageFailure"]
                ELSE IF ~getAsset(assets, symbol, userId)
                     THEN [c EXCEPT !.pc = "setAsset_insert"]
                ELSE IF error THEN [c EXCEPT !.ret = "700991"]
                ELSE [c EXCEPT !.ret = "nil"]]
  /\ ncalls' = ncalls + 1
  /\ UNCHANGED <<assets, applied, tradeVars, txVars, reserveVars, orderVars, fw, gw>>

\* setAsset, second statement: insert into assets (user_id, symbol).
SetAssetInsert(w, Oks) ==
  /\ lw[w].pc = "setAsset_insert"
  /\ \E ok \in Oks :
       IF ok
       THEN /\ assets' = InsertAsset(assets, lw[w].symbol, lw[w].userId)
            /\ lw' = [lw EXCEPT ![w].pc = "idle", ![w].ret = "nil"]
       ELSE /\ assets' = assets
            /\ lw' = [lw EXCEPT ![w].pc = "idle", ![w].ret = "StorageFailure"]
  /\ UNCHANGED <<applied, ncalls, tradeVars, txVars, reserveVars, orderVars, fw, gw>>

\* setBalance is entered with its arguments.
SetBalanceCall(w) ==
  /\ lw[w].pc = "idle"
  /\ ncalls < MaxCalls
  /\ \E symbol \in Symbols, userId \in Users, quantity \in Quantities,
        cross \in {Balance_PLUS, Balance_MINUS} :
       lw' = [lw EXCEPT ![w] =
                LwCall("setBalance", symbol, userId, quantity, cross, FALSE, "setBalance")]
  /\ ncalls' = ncalls + 1
  /\ UNCHANGED <<assets, applied, tradeVars, txVars, reserveVars, orderVars, fw, gw>>

\* setBalance executes its one update statement and returns its error.
SetBalanceExec(w, Oks) ==
  /\ lw[w].pc = "setBalance"
  /\ \E ok \in Oks :
       LET c == lw[w]
           k == <<c.userId, c.symbol>> IN
       IF ok
       THEN /\ assets' = UpdateBalance(assets, c.symbol, c.userId, c.qty, c.cross)
            /\ applied' = IF getAsset(assets, c.symbol, c.userId)
                          THEN [applied EXCEPT ![k] = @ + Signed(c.qty, c.cross)]
                          ELSE applied
            /\ lw' = [lw EXCEPT ![w].pc = "idle", ![w].ret = "nil",
                                ![w].raced = \E v \in Workers \ {w} :
                                    /\ lw[v].pc = "setBalance"
                                    /\ lw[v].symbol = c.symbol
                                    /\ lw[v].userId = c.userId]
       ELSE /\ UNCHANGED <<assets, applied>>
            /\ lw' = [lw EXCEPT ![w].pc = "idle", ![w].ret = "StorageFailure"]
  /\ UNCHANGED <<ncalls, tradeVars, txVars, reserveVars, orderVars, fw, gw>>

LedgerNext(Ws, Oks) ==
  /\ \E w \in Ws :
       \/ SetAssetQuery(w, Oks)
       \/ SetAssetInsert(w, Oks)
       \/ SetBalanceCall(w)
       \/ SetBalanceExec(w, Oks)
  /\ UNCHANGED undo

NoUndo == [userId |-> 0, symbol |-> "", qty |-> 0, cross |-> "none", before |-> 0,
           undid |-> FALSE]

\* Worker w is in a setBalance MINUS whose quantity and key are those of the
\* setBalance PLUS recorded in undo.
Undoes(w) ==
  /\ lw[w].cross = Balance_MINUS /\ undo[w].cross = Balance_PLUS
  /\ undo[w].qty = lw[w].qty
  /\ undo[w].userId = lw[w].userId /\ undo[w].symbol = lw[w].symbol

\* What worker w's step leaves in undo: a setBalance that executed its statement and
\* returned nil is recorded with the balance it found; the record is kept while the
\* next setBalance is entered and dropped by any other step.
Executed(w) ==
  IF lw[w].pc = "setBalance" /\ lw'[w].pc = "idle" /\ lw'[w].ret = "nil"
  THEN [userId |-> lw[w].userId, symbol |-> lw[w].symbol, qty |-> lw[w].qty,
        cross |-> lw[w].cross, before |-> getBalance(assets, lw[w].symbol, lw[w].userId),
        undid |-> Undoes(w)]
  ELSE IF lw[w].pc = "idle" /\ lw'[w].pc = "setBalance" THEN undo[w]
  ELSE NoUndo

\* The ledger operations with the history of each worker's last setBalance kept.
LedgerNextTracked(Ws, Oks) ==
  \E w \in Ws :
    /\ \/ SetAssetQuery(w, Oks)
       \/ SetAssetInsert(w, Oks)
       \/ SetBalanceCall(w)
       \/ SetBalanceExec(w, Oks)
    /\ undo' = [undo EXCEPT ![w] = Executed(w)]

\* ------------------------------------------------------------------ settlement
Channels == {"order/status", "trade/candles:1", "trade/candles:5"}

\* help.Depth(): the configured candle resolutions.
Depth == <<"1", "5">>

CandleChannel(interval) == IF interval = "1" THEN "trade/candles:1" ELSE "trade/candles:5"

\* pbspot.Order with its Param (equal, maker, fees, turn).
Order(id, userId, assigning, price, value, equal, maker, fees, turn) ==
  [id |-> id, user_id |-> userId, assigning |-> assigning, base_unit |-> "btc",
   quote_unit |-> "usd", price |-> price, quantity |-> 0, value |-> value,
   param |-> [equal |-> equal, maker |-> maker, fees |-> fees, turn |-> turn]]

\* Matched pairs <<param[0], param[1]>> handed to setTrade: param[0] the maker,
\* with or without traded value and fee; param[1] the taker, its fee charged in
\* the base unit.
TradePairs ==
  {<<Order(1, 1, "BUY", 100, v0, eq, TRUE, f0, FALSE),
     Order(2, 2, "SELL", 101, 1, eq, FALSE, 1, TRUE)>> :
     v0 \in {0, 2}, eq \in BOOLEAN, f0 \in {0, 1}}

\* The currencies table as a failed query sees it.
NoCurrencies == [s \in {} |-> 0]

\* getFees: fees_trade of the symbol's currency, less fees_discount for a maker;
\* with no currency row, or a failed query, the Scan fails and the zero value is
\* returned.
getFees(cur, symbol, maker) ==
  IF symbol \notin DOMAIN cur THEN 0
  ELSE IF maker THEN cur[symbol].fees_trade - cur[symbol].fees_discount
  ELSE cur[symbol].fees_trade

\* A settlement that never takes the early return.
TradeRejectedNever(param) == FALSE

\* setTrade's early return: param[0].GetValue() == 0.
TradeRejected(param) == param[1].value = 0

\* The row of: insert into trades (assigning, base_unit, quote_unit, price, quantity)
TradeRow(param) ==
  [assigning |-> param[1].assigning, base_unit |-> param[1].base_unit,
   quote_unit |-> param[1].quote_unit, price |-> param[1].price,
   quantity |-> param[1].value]

\* Leg i (1 or 2 for the code's 0 or 1): Quantity and Price are set in place.
ResolveLeg(param, i) ==
  [param EXCEPT
     ![i].quantity = IF param[i].param.equal THEN param[2].value ELSE param[1].value,
     ![i].price = IF param[i].param.maker THEN param[1].price ELSE param[i].price]

\* A faulty transfer insert that writes param[0]'s order id for both legs.
TransferRowFirstId(cur, param, i) ==
  [order_id |-> param[1].id, assigning |-> param[i].assigning,
   user_id |-> param[i].user_id, base_unit |-> param[i].base_unit,
   quote_unit |-> param[i].quote_unit, price |-> param[i].price,
   quantity |-> param[i].quantity,
   fees |-> getFees(cur, param[i].quote_unit, param[i].param.maker)]

\* The row of: insert into transfers (order_id, ..., price, quantity, fees)
TransferRow(cur, param, i) ==
  [order_id |-> param[i].id, assigning |-> param[i].assigning,
   user_id |-> param[i].user_id, base_unit |-> param[i].base_unit,
   quote_unit |-> param[i].quote_unit, price |-> param[i].price,
   quantity |-> param[i].quantity,
   fees |-> getFees(cur, param[i].quote_unit, param[i].param.maker)]

\* A faulty choice that accrues every fee to the quote unit.
AccrualSymbolQuote(param, i) == param[1].quote_unit

\* The currency a leg's fee is accrued to.
AccrualSymbol(param, i) ==
  IF param[i].param.turn THEN param[1].base_unit ELSE param[1].quote_unit

\* update currencies set fees_charges = fees_charges + $2 where symbol = $1
UpdateCharges(cur, symbol, fees) ==
  IF symbol \in DOMAIN cur
  THEN [cur EXCEPT ![symbol].fees_charges = @ + fees]
  ELSE cur

Publish(pub, channel) == [pub EXCEPT ![channel] = @ + 1]

NoWrites == [trades |-> 0, transfers |-> <<>>, charges |-> 0, published |-> 0]

TwIdle ==
  [pc |-> "idle", called |-> FALSE, arg |-> <<>>, param |-> <<>>, i |-> 1, j |-> 1,
   ret |-> "none", wrote |-> NoWrites]

TwReturn(t, ret) == [t EXCEPT !.pc = "idle", !.ret = ret]

\* A faulty insert: the new row takes the place of the table's last row.
InsertOverLast(rows, row) ==
  IF rows = <<>> THEN <<row>> ELSE [rows EXCEPT ![Len(rows)] = row]

\* A faulty insert: the row is added twice.
InsertTwice(rows, row) == Append(Append(rows, row), row)

\* insert into trades / insert into transfers: the row is added after the rows the
\* table holds (lines 121 and 146; stock.go 201).
Insert(rows, row) == Append(rows, row)

\* A faulty trade insert: it reports success and stores nothing.
InsertTradeLost(rows, param) == rows

\* insert into trades (...) values (param[0]...), line 121.
InsertTrade(rows, param) == Insert(rows, TradeRow(param))

\* setTrade up to the insert into trades (lines 111-123).
SetTradeBegin(w, Oks, Pairs) ==
  /\ tw[w].pc = "idle"
  /\ ncalls < MaxSettles
  /\ ncalls' = ncalls + 1
  /\ \E p \in Pairs, ok \in Oks :
       LET t == [TwIdle EXCEPT !.called = TRUE, !.arg = p, !.param = p] IN
       IF TradeRejected(p)
       THEN /\ tw' = [tw EXCEPT ![w] = TwReturn(t, "nil")]
            /\ UNCHANGED tradeTables
       ELSE IF ok
       THEN /\ trades' = InsertTrade(trades, p)
            /\ tw' = [tw EXCEPT ![w] = [t EXCEPT !.pc = "transfer", !.wrote.trades = 1]]
            /\ UNCHANGED <<transfers, currencies, published>>
       ELSE /\ tw' = [tw EXCEPT ![w] = TwReturn(t, "StorageFailure")]
            /\ UNCHANGED tradeTables
  /\ UNCHANGED <<ledgerVars, txVars,
               reserveVars, undo, orderVars, fw, gw>>

\* Leg i: quantity and price are resolved and the transfer row inserted (lines 132-148).
\* The insert's last argument is getFees, a query of its own: FeeOks are the
\* outcomes that query can have.
SetTradeTransfer(w, Oks, FeeOks) ==
  /\ tw[w].pc = "transfer"
  /\ \E ok \in Oks, found \in FeeOks :
       LET t == tw[w]
           q == ResolveLeg(t.param, t.i)
           row == TransferRow(IF found THEN currencies ELSE NoCurrencies, q, t.i) IN
       IF ok
       THEN /\ transfers' = Insert(transfers, row)
            /\ tw' = [tw EXCEPT ![w] =
                 [t EXCEPT !.param = q,
                           !.wrote.transfers = Append(@, row.order_id),
                           !.pc = IF q[t.i].param.fees > 0 THEN "accrue" ELSE "publish"]]
       ELSE /\ transfers' = transfers
            /\ tw' = [tw EXCEPT ![w] = TwReturn([t EXCEPT !.param = q], "StorageFailure")]
  /\ UNCHANGED <<trades, currencies, published, ncalls, ledgerVars, txVars,
               reserveVars, undo, orderVars, fw, gw>>

\* Leg i: the fee of the leg is added to the currency's fees_charges (lines 153-169).
SetTradeAccrue(w, Oks) ==
  /\ tw[w].pc = "accrue"
  /\ \E ok \in Oks :
       LET t == tw[w] IN
       IF ok
       THEN /\ currencies' = UpdateCharges(currencies, AccrualSymbol(t.param, t.i),
                                           t.param[t.i].param.fees)
            /\ tw' = [tw EXCEPT ![w] = [t EXCEPT !.pc = "publish", !.wrote.charges = @ + 1]]
       ELSE /\ currencies' = currencies
            /\ tw' = [tw EXCEPT ![w] = TwReturn(t, "StorageFailure")]
  /\ UNCHANGED <<trades, transfers, published, ncalls, ledgerVars, txVars,
               reserveVars, undo, orderVars, fw, gw>>

\* Leg i: the order is published on order/status; then the next leg, or the candles
\* (lines 173-176).
SetTradePublish(w, Oks) ==
  /\ tw[w].pc = "publish"
  /\ \E ok \in Oks :
       LET t == tw[w] IN
       IF ok
       THEN /\ published' = Publish(published, "order/status")
            /\ tw' = [tw EXCEPT ![w] =
                 [t EXCEPT !.wrote.published = @ + 1,
                           !.pc = IF t.i < 2 THEN "transfer" ELSE "candles",
                           !.i = IF t.i < 2 THEN t.i + 1 ELSE t.i]]
       ELSE /\ published' = published
            /\ tw' = [tw EXCEPT ![w] = TwReturn(t, "PublishFailure")]
  /\ UNCHANGED <<trades, transfers, currencies, ncalls, ledgerVars, txVars,
               reserveVars, undo, orderVars, fw, gw>>

\* One resolution: GetCandles, then Publish on trade/candles:<interval> (lines 181-199).
SetTradeCandles(w, Oks) ==
  /\ tw[w].pc = "candles"
  /\ \E ok \in Oks :
       LET t == tw[w] IN
       IF ok
       THEN /\ published' = Publish(published, CandleChannel(Depth[t.j]))
            /\ tw' = [tw EXCEPT ![w] =
                 IF t.j < Len(Depth)
                 THEN [t EXCEPT !.wrote.published = @ + 1, !.j = t.j + 1]
                 ELSE TwReturn([t EXCEPT !.wrote.published = @ + 1], "nil")]
       ELSE /\ published' = published
            /\ tw' = [tw EXCEPT ![w] = TwReturn(t, "CandlesFailure")]
  /\ UNCHANGED <<trades, transfers, currencies, ncalls, ledgerVars, txVars,
               reserveVars, undo, orderVars, fw, gw>>

TradeNext(Ws, Oks, FeeOks, Pairs) ==
  \E w \in Ws :
    \/ SetTradeBegin(w, Oks, Pairs)
    \/ SetTradeTransfer(w, Oks, FeeOks)
    \/ SetTradeAccrue(w, Oks)
    \/ SetTradePublish(w, Oks)
    \/ SetTradeCandles(w, Oks)

\* ------------------------------------------------------------------ transactions
\* pbspot.Allocation, pbspot.Assignment, pbspot.Status
Allocation_EXTERNAL == "EXTERNAL"
Allocation_INTERNAL == "INTERNAL"
Assignment_DEPOSIT == "DEPOSIT"
Assignment_WITHDRAWS == "WITHDRAWS"
Status_PENDING == "PENDING"
Status_CONFIRMED == "CONFIRMED"

\* Hashes uuid.NewV1 hands out, in order.
Uuids == <<"u1", "u2", "u3", "u4", "u5", "u6">>
EventHashes == {"", "h1"}
Hashes == EventHashes \cup {Uuids[n] : n \in 1..Len(Uuids)}

\* Table chains: id -> [id, rpc].  Chain 2 has no row.
Chains == [c \in {1} |-> [id |-> c, rpc |-> "node"]]
NoChain == [id |-> 0, rpc |-> ""]

\* Chain events handed to setTransaction.
Events ==
  [hash : EventHashes, allocation : {Allocation_EXTERNAL, Allocation_INTERNAL},
   assignment : {Assignment_WITHDRAWS}, chain_id : {1, 2}]

HashRows(rows, hash) == {i \in 1..Len(rows) : rows[i].hash = hash}

\* select exists(select id from transactions where hash = $1)
HashExists(rows, hash) == HashRows(rows, hash) # {}

\* select exists(select id from transactions where hash = $1 and allocation = INTERNAL)
InternalExists(rows, hash) ==
  \E i \in HashRows(rows, hash) : rows[i].allocation = Allocation_INTERNAL

\* The insert without the allocation column, which then takes its default.
TransactionRowNoAllocation(rows, t) ==
  [id |-> Len(rows) + 1, hash |-> t.hash, allocation |-> Allocation_EXTERNAL,
   assignment |-> t.assignment, status |-> Status_PENDING, chain_id |-> t.chain_id]

\* insert into transactions (...) returning id, create_at, status: the status
\* column takes its default.
TransactionRow(rows, t) ==
  [id |-> Len(rows) + 1, hash |-> t.hash, allocation |-> t.allocation,
   assignment |-> t.assignment, status |-> Status_PENDING, chain_id |-> t.chain_id]

\* update transactions set assignment = DEPOSIT, status = PENDING where hash = $3
Reflag(rows, hash) ==
  [i \in 1..Len(rows) |->
     IF rows[i].hash = hash
     THEN [rows[i] EXCEPT !.assignment = Assignment_DEPOSIT, !.status = Status_PENDING]
     ELSE rows[i]]

\* getChain(id, false): the chain's row, or "chain not found or chain network off".
getChainFound(id) == id \in DOMAIN Chains

NoEvent ==
  [hash |-> "", allocation |-> Allocation_EXTERNAL, assignment |-> Assignment_WITHDRAWS,
   chain_id |-> 0]

\* The transaction a call works on: the event's fields, plus what the call sets.
TxOf(ev) ==
  [hash |-> ev.hash, allocation |-> ev.allocation, assignment |-> ev.assignment,
   chain_id |-> ev.chain_id, id |-> 0, status |-> "none", chain |-> NoChain]

\* out is what the call returns beside the error: "tx" the transaction, "nil" no transaction.
\* History of the call: wrote counts the rows it inserted or updated, failed says
\* that one of its statements failed, internal that the event's hash was stored on
\* an INTERNAL row when the call began.
XwIdle ==
  [pc |-> "idle", called |-> FALSE, ev |-> NoEvent, tx |-> TxOf(NoEvent),
   out |-> "none", ret |-> "none", wrote |-> 0, failed |-> FALSE, internal |-> FALSE]

XwReturn(x, out, ret) == [x EXCEPT !.pc = "idle", !.out = out, !.ret = ret]

\* Line 307: the existence lookup.  A failed Scan leaves exist false and its error
\* is dropped.
SetTransactionLookup(w, Oks) ==
  /\ xw[w].pc = "idle"
  /\ ncalls < MaxIngests
  /\ ncalls' = ncalls + 1
  /\ \E ev \in Events, ok \in Oks :
       LET exist == ok /\ HashExists(transactions, ev.hash)
           x == [XwIdle EXCEPT !.called = TRUE, !.ev = ev, !.tx = TxOf(ev),
                               !.failed = ~ok,
                               !.internal = InternalExists(transactions, ev.hash)] IN
       xw' = [xw EXCEPT ![w] = [x EXCEPT !.pc = IF exist THEN "lookup2" ELSE "insert"]]
  /\ UNCHANGED <<transactions, uuids, credits, ledgerVars, tradeVars,
               reserveVars, undo, orderVars, fw, gw>>

\* A faulty hash step: every event is given a generated hash.
NewHashAlways(hash, n) == Uuids[n + 1]

\* Lines 311-313: an empty hash is replaced by uuid.NewV1, the n+1st it hands out.
NewHash(hash, n) == IF hash = "" THEN Uuids[n + 1] ELSE hash

\* Lines 311-336: an empty hash is replaced by a fresh uuid, then the row is inserted.
SetTransactionInsert(w, Oks) ==
  /\ xw[w].pc = "insert"
  /\ \E ok \in Oks :
       LET x == xw[w]
           fresh == x.tx.hash = ""
           t == [x.tx EXCEPT !.hash = NewHash(@, uuids)]
           row == TransactionRow(transactions, t) IN
       /\ uuids' = IF fresh THEN uuids + 1 ELSE uuids
       /\ IF ok
          THEN /\ transactions' = Append(transactions, row)
               /\ xw' = [xw EXCEPT ![w] =
                    [x EXCEPT !.pc = "chain", !.wrote = @ + 1,
                              !.tx = [t EXCEPT !.id = row.id, !.status = row.status]]]
          ELSE /\ transactions' = transactions
               /\ xw' = [xw EXCEPT ![w] =
                    XwReturn([x EXCEPT !.tx = t, !.failed = TRUE], "tx", "StorageFailure")]
  /\ UNCHANGED <<credits, ncalls, ledgerVars, tradeVars,
               reserveVars, undo, orderVars, fw, gw>>

\* Lines 340-349: the chain is read and embedded, its rpc and the chain id are cleared.
SetTransactionChain(w, Oks) ==
  /\ xw[w].pc = "chain"
  /\ \E ok \in Oks :
       LET x == [xw[w] EXCEPT !.failed = @ \/ ~ok] IN
       xw' = [xw EXCEPT ![w] =
                IF ok /\ getChainFound(x.tx.chain_id)
                THEN XwReturn([x EXCEPT !.tx.chain = [Chains[x.tx.chain_id] EXCEPT !.rpc = ""],
                                        !.tx.chain_id = 0], "tx", "nil")
                ELSE XwReturn(x, "tx", "ChainNotFound")]
  /\ UNCHANGED <<transactions, uuids, credits, ncalls, ledgerVars, tradeVars,
               reserveVars, undo, orderVars, fw, gw>>

\* Line 355: the lookup of an INTERNAL row with the hash.  exist is true on entry; a
\* failed Scan leaves it so and its error is dropped.
SetTransactionLookup2(w, Oks) ==
  /\ xw[w].pc = "lookup2"
  /\ \E ok \in Oks :
       LET exist == IF ok THEN InternalExists(transactions, xw[w].tx.hash) ELSE TRUE
           x == [xw[w] EXCEPT !.failed = @ \/ ~ok] IN
       xw' = [xw EXCEPT ![w] =
                IF exist THEN [x EXCEPT !.pc = "reflag"]
                ELSE XwReturn(x, "nil", "nil")]
  /\ UNCHANGED <<transactions, uuids, credits, ncalls, ledgerVars, tradeVars,
               reserveVars, undo, orderVars, fw, gw>>

\* Lines 360-367: the row is set to DEPOSIT and PENDING.  A failed update returns
\* the transaction and no error.
SetTransactionReflag(w, Oks) ==
  /\ xw[w].pc = "reflag"
  /\ \E ok \in Oks :
       IF ok
       THEN /\ transactions' = Reflag(transactions, xw[w].tx.hash)
            /\ xw' = [xw EXCEPT ![w] =
                 XwReturn([xw[w] EXCEPT !.wrote = @ + Cardinality(HashRows(transactions,
                                                                  xw[w].tx.hash))],
                          "nil", "nil")]
       ELSE /\ transactions' = transactions
            /\ xw' = [xw EXCEPT ![w] = XwReturn([xw[w] EXCEPT !.failed = TRUE], "tx", "nil")]
  /\ UNCHANGED <<uuids, credits, ncalls, ledgerVars, tradeVars,
               reserveVars, undo, orderVars, fw, gw>>

\* Confirmation of a PENDING row: in one atomic step the status becomes CONFIRMED
\* and the balance (deposit) or reserve adjust is invoked.
Confirm(i) ==
  /\ transactions[i].status = Status_PENDING
  /\ transactions' = [transactions EXCEPT ![i].status = Status_CONFIRMED]
  /\ credits' = [credits EXCEPT ![transactions[i].hash] = @ + 1]
  /\ UNCHANGED <<xw, uuids, ncalls, ledgerVars, tradeVars,
               reserveVars, undo, orderVars, fw, gw>>

TxNext(Ws, Oks) ==
  \/ \E w \in Ws :
       \/ SetTransactionLookup(w, Oks)
       \/ SetTransactionInsert(w, Oks)
       \/ SetTransactionChain(w, Oks)
       \/ SetTransactionLookup2(w, Oks)
       \/ SetTransactionReflag(w, Oks)
  \/ \E i \in 1..Len(transactions) : Confirm(i)

\* ------------------------------------------------------------------ reserves
Addresses == {"a1", "a2"}
\* The one platform and protocol of the modelled reserves.
Platform == "ETHEREUM"
Protocol == "ERC20"
\* The columns setReserveLock and setReserveUnlock select by (platform and protocol fixed).
LockKeys == Users \X Symbols

RECURSIVE SumValues(_)
SumValues(rows) == IF rows = <<>> THEN 0 ELSE Head(rows).value + SumValues(Tail(rows))

\* where symbol = $1 and platform = $2 and protocol = $3
TotalMatch(r, symbol, platform, protocol) ==
  r.symbol = symbol /\ r.platform = platform /\ r.protocol = protocol

\* getReserve: sum(value) over the symbol, platform and protocol; zero without a row.
getReserve(rows, symbol, platform, protocol) ==
  SumValues(SelectSeq(rows, LAMBDA r : TotalMatch(r, symbol, platform, protocol)))

\* where user_id = $1 and symbol = $2 and platform = $3 and protocol = $4
LockMatch(r, userId, symbol, platform, protocol) ==
  r.user_id = userId /\ TotalMatch(r, symbol, platform, protocol)

\* ... and address = $5
ReserveMatch(r, userId, symbol, platform, protocol, address) ==
  LockMatch(r, userId, symbol, platform, protocol) /\ r.address = address

\* row.Next() of "select id from reserves where ..."
ReserveExists(rows, userId, symbol, platform, protocol, address) ==
  \E i \in 1..Len(rows) : ReserveMatch(rows[i], userId, symbol, platform, protocol, address)

\* insert into reserves (...) values (..., value): the value as given, whatever cross is.
InsertReserve(rows, userId, address, symbol, value, platform, protocol) ==
  Append(rows, [user_id |-> userId, symbol |-> symbol, platform |-> platform,
                protocol |-> protocol, address |-> address, value |-> value,
                lock |-> FALSE])

\* update reserves set value = value + $6 (PLUS) or value - $6 (MINUS) where ...
UpdateReserve(rows, userId, address, symbol, value, platform, protocol, cross) ==
  [i \in 1..Len(rows) |->
     IF ReserveMatch(rows[i], userId, symbol, platform, protocol, address)
     THEN [rows[i] EXCEPT !.value = IF cross = Balance_PLUS THEN @ + value ELSE @ - value]
     ELSE rows[i]]

\* A faulty lock update: only the first row of the key gets the flag.
UpdateLockFirst(rows, userId, symbol, platform, protocol, flag) ==
  [i \in 1..Len(rows) |->
     IF /\ LockMatch(rows[i], userId, symbol, platform, protocol)
        /\ \A j \in 1..(i - 1) : ~LockMatch(rows[j], userId, symbol, platform, protocol)
     THEN [rows[i] EXCEPT !.lock = flag]
     ELSE rows[i]]

\* update reserves set lock = $5 where user_id, symbol, platform, protocol
UpdateLock(rows, userId, symbol, platform, protocol, flag) ==
  [i \in 1..Len(rows) |->
     IF LockMatch(rows[i], userId, symbol, platform, protocol)
     THEN [rows[i] EXCEPT !.lock = flag]
     ELSE rows[i]]

RwIdle ==
  [pc |-> "idle", called |-> FALSE, op |-> "none", user_id |-> 0, symbol |-> "",
   address |-> "", value |-> 0, cross |-> Balance_PLUS, ret |-> "none"]

RwReturn(r, ret) == [r EXCEPT !.pc = "idle", !.ret = ret]

\* setReserve, the select: a failed query returns its error, a row found leads to
\* the update, no row to the insert.
SetReserveQuery(w, Oks) ==
  /\ rw[w].pc = "idle"
  /\ ncalls < MaxReserveCalls
  /\ ncalls' = ncalls + 1
  /\ \E userId \in Users, symbol \in Symbols, address \in Addresses,
        value \in Quantities, cross \in {Balance_PLUS, Balance_MINUS}, ok \in Oks :
       LET r == [RwIdle EXCEPT !.called = TRUE, !.op = "setReserve", !.user_id = userId,
                               !.symbol = symbol, !.address = address, !.value = value,
                               !.cross = cross] IN
       rw' = [rw EXCEPT ![w] =
                IF ~ok THEN RwReturn(r, "StorageFailure")
                ELSE [r EXCEPT !.pc =
                        IF ReserveExists(reserves, userId, symbol, Platform, Protocol, address)
                        THEN "update" ELSE "insert"]]
  /\ UNCHANGED <<reserves, holders, ledgerVars, tradeVars, txVars,
               undo, orderVars, fw, gw>>

\* setReserve, the update of the row found.
SetReserveUpdate(w, Oks) ==
  /\ rw[w].pc = "update"
  /\ \E ok \in Oks :
       LET r == rw[w] IN
       IF ok
       THEN /\ reserves' = UpdateReserve(reserves, r.user_id, r.address, r.symbol, r.value,
                                         Platform, Protocol, r.cross)
            /\ rw' = [rw EXCEPT ![w] = RwReturn(r, "nil")]
       ELSE /\ reserves' = reserves
            /\ rw' = [rw EXCEPT ![w] = RwReturn(r, "StorageFailure")]
  /\ UNCHANGED <<holders, ncalls, ledgerVars, tradeVars, txVars,
               undo, orderVars, fw, gw>>

\* setReserve, the insert when the select found no row.
SetReserveInsert(w, Oks) ==
  /\ rw[w].pc = "insert"
  /\ \E ok \in Oks :
       LET r == rw[w] IN
       IF ok
       THEN /\ reserves' = InsertReserve(reserves, r.user_id, r.address, r.symbol, r.value,
                                         Platform, Protocol)
            /\ rw' = [rw EXCEPT ![w] = RwReturn(r, "nil")]
       ELSE /\ reserves' = reserves
            /\ rw' = [rw EXCEPT ![w] = RwReturn(r, "StorageFailure")]
  /\ UNCHANGED <<holders, ncalls, ledgerVars, tradeVars, txVars,
               undo, orderVars, fw, gw>>

\* setReserveLock: one update statement; nil unless the statement fails.
SetReserveLock(w, Oks) ==
  /\ rw[w].pc = "idle"
  /\ ncalls < MaxReserveCalls
  /\ ncalls' = ncalls + 1
  /\ \E userId \in Users, symbol \in Symbols, ok \in Oks :
       LET r == [RwIdle EXCEPT !.called = TRUE, !.op = "setReserveLock",
                               !.user_id = userId, !.symbol = symbol]
           set == \E i \in 1..Len(reserves) :
                     LockMatch(reserves[i], userId, symbol, Platform, Protocol) IN
       IF ok
       THEN /\ reserves' = UpdateLock(reserves, userId, symbol, Platform, Protocol, TRUE)
            /\ holders' = [holders EXCEPT ![<<userId, symbol>>] = IF set THEN @ \cup {w} ELSE @]
            /\ rw' = [rw EXCEPT ![w] = RwReturn(r, "nil")]
       ELSE /\ UNCHANGED <<reserves, holders>>
            /\ rw' = [rw EXCEPT ![w] = RwReturn(r, "StorageFailure")]
  /\ UNCHANGED <<ledgerVars, tradeVars, txVars,
               undo, orderVars, fw, gw>>

\* setReserveUnlock: the same statement with false.
SetReserveUnlock(w, Oks) ==
  /\ rw[w].pc = "idle"
  /\ ncalls < MaxReserveCalls
  /\ ncalls' = ncalls + 1
  /\ \E userId \in Users, symbol \in Symbols, ok \in Oks :
       LET r == [RwIdle EXCEPT !.called = TRUE, !.op = "setReserveUnlock",
                               !.user_id = userId, !.symbol = symbol] IN
       IF ok
       THEN /\ reserves' = UpdateLock(reserves, userId, symbol, Platform, Protocol, FALSE)
            /\ holders' = [holders EXCEPT ![<<userId, symbol>>] = {}]
            /\ rw' = [rw EXCEPT ![w] = RwReturn(r, "nil")]
       ELSE /\ UNCHANGED <<reserves, holders>>
            /\ rw' = [rw EXCEPT ![w] = RwReturn(r, "StorageFailure")]
  /\ UNCHANGED <<ledgerVars, tradeVars, txVars,
               undo, orderVars, fw, gw>>

ReserveNext(Ws, Oks) ==
  \E w \in Ws :
    \/ SetReserveQuery(w, Oks)
    \/ SetReserveUpdate(w, Oks)
    \/ SetReserveInsert(w, Oks)
    \/ SetReserveLock(w, Oks)
    \/ SetReserveUnlock(w, Oks)

\* ------------------------------------------------------------------ fee calculator
\* The symbols asked for: those of the currencies table and one without a record.
FeeSymbols == Symbols \cup {"xrp"}
\* The notional values handed to getSum.
Notionals == {100 * q : q \in Quantities}

\* getSum: the same lookup as getFees; with no currency row, or a failed query, both
\* results keep their zero value.  Otherwise, with f = value * fees / 100, the
\* results are value - (value - (value - f)) and value - (value - f).
getSum(cur, symbol, value, maker) ==
  IF symbol \notin DOMAIN cur THEN [balance |-> 0, fees |-> 0]
  ELSE LET f == (value * getFees(cur, symbol, maker)) \div 100 IN
       [balance |-> value - (value - (value - f)), fees |-> value - (value - f)]

\* ret is what the caller is told beside the numbers: both functions have no error
\* result, every call is a "value".
FwIdle ==
  [called |-> FALSE, op |-> "none", symbol |-> "", value |-> 0, maker |-> FALSE,
   balance |-> 0, fees |-> 0, ret |-> "none"]

GetFees(Oks) ==
  /\ \E symbol \in FeeSymbols, maker \in BOOLEAN, found \in Oks :
       fw' = [FwIdle EXCEPT !.called = TRUE, !.op = "getFees", !.symbol = symbol,
                            !.maker = maker, !.ret = "value",
                            !.fees = getFees(IF found THEN currencies ELSE NoCurrencies,
                                             symbol, maker)]
  /\ UNCHANGED <<ledgerVars, tradeVars, txVars, reserveVars, undo, orderVars, gw, ncalls>>

GetSum(Oks) ==
  /\ \E symbol \in FeeSymbols, value \in Notionals, maker \in BOOLEAN, found \in Oks :
       LET r == getSum(IF found THEN currencies ELSE NoCurrencies, symbol, value, maker) IN
       fw' = [FwIdle EXCEPT !.called = TRUE, !.op = "getSum", !.symbol = symbol,
                            !.value = value, !.maker = maker, !.ret = "value",
                            !.balance = r.balance, !.fees = r.fees]
  /\ UNCHANGED <<ledgerVars, tradeVars, txVars, reserveVars, undo, orderVars, gw, ncalls>>

FeeNext(Oks) == GetFees(Oks) \/ GetSum(Oks)

\* ------------------------------------------------------------------ order store
\* The orders handed to setOrder.
NewOrders ==
  [id : {0}, user_id : Users, assigning : {"BUY", "SELL"}, base_unit : {"btc"},
   quote_unit : {"usd"}, price : {100}, quantity : Quantities, value : Quantities]

\* The zero value of pbspot.Order.
NoOrder ==
  [id |-> 0, user_id |-> 0, assigning |-> "", base_unit |-> "", quote_unit |-> "",
   price |-> 0, quantity |-> 0, value |-> 0]

\* insert into orders (assigning, base_unit, quote_unit, price, value, quantity,
\* user_id, type) values (..., GetPrice(), GetQuantity(), GetValue(), ...) returning id
OrderRow(rows, order) ==
  [id |-> Len(rows) + 1, user_id |-> order.user_id, assigning |-> order.assigning,
   base_unit |-> order.base_unit, quote_unit |-> order.quote_unit,
   price |-> order.price, value |-> order.quantity, quantity |-> order.value]

\* getOrder: the row of the id scanned into an order; without a row, or on a failed
\* query, the Scan's error is dropped and the zero order is returned.
getOrder(rows, id) ==
  IF \E i \in 1..Len(rows) : rows[i].id = id
  THEN rows[CHOOSE i \in 1..Len(rows) : rows[i].id = id]
  ELSE NoOrder

\* asked and got are the id and the result of the getOrder since the last setOrder.
OwIdle ==
  [called |-> FALSE, order |-> NoOrder, id |-> 0, ret |-> "none", read |-> FALSE,
   asked |-> 0, got |-> NoOrder]

SetOrder(Oks) ==
  /\ ncalls < MaxOrders
  /\ ncalls' = ncalls + 1
  /\ \E order \in NewOrders, ok \in Oks :
       LET row == OrderRow(orders, order)
           c == [OwIdle EXCEPT !.called = TRUE, !.order = order] IN
       IF ok
       THEN /\ orders' = Append(orders, row)
            /\ ow' = [c EXCEPT !.id = row.id, !.ret = "nil"]
       ELSE /\ orders' = orders
            /\ ow' = [c EXCEPT !.ret = "StorageFailure"]
  /\ UNCHANGED <<ledgerVars, tradeVars, txVars, reserveVars, undo, fw, gw>>

GetOrder(Oks) ==
  /\ \E id \in 0..MaxOrders, ok \in Oks :
       ow' = [ow EXCEPT !.read = TRUE, !.asked = id,
                        !.got = getOrder(IF ok THEN orders ELSE <<>>, id)]
  /\ UNCHANGED <<orders, ncalls, ledgerVars, tradeVars, txVars, reserveVars, undo, fw, gw>>

OrderNext(Oks) == SetOrder(Oks) \/ GetOrder(Oks)

\* ------------------------------------------------------------------ readers
GwIdle == [called |-> FALSE, op |-> "none", symbol |-> "", userId |-> 0, value |-> 0]

\* getBalance(symbol, userId): a failed query scans nothing and the zero value is
\* returned, its error dropped.
GetBalance(Oks) ==
  /\ \E symbol \in Symbols, userId \in Users, ok \in Oks :
       gw' = [called |-> TRUE, op |-> "getBalance", symbol |-> symbol, userId |-> userId,
              value |-> getBalance(IF ok THEN assets ELSE <<>>, symbol, userId)]
  /\ UNCHANGED <<ledgerVars, tradeVars, txVars, reserveVars, undo, orderVars, fw, ncalls>>

\* getReserve(symbol, platform, protocol) (lines 818-824): likewise.
GetReserve(Oks) ==
  /\ \E symbol \in Symbols, ok \in Oks :
       gw' = [called |-> TRUE, op |-> "getReserve", symbol |-> symbol, userId |-> 0,
              value |-> getReserve(IF ok THEN reserves ELSE <<>>, symbol, Platform, Protocol)]
  /\ UNCHANGED <<ledgerVars, tradeVars, txVars, reserveVars, undo, orderVars, fw, ncalls>>

\* ------------------------------------------------------------------ specifications
Init ==
  /\ assets = <<>>
  /\ lw = [w \in Workers |-> LwIdle]
  /\ applied = [k \in Users \X Symbols |-> 0]
  /\ trades = <<>>
  /\ transfers = <<>>
  /\ currencies = [s \in Symbols |->
                     [fees_trade |-> 3, fees_discount |-> 1, fees_charges |-> 0]]
  /\ published = [c \in Channels |-> 0]
  /\ tw = [w \in Workers |-> TwIdle]
  /\ transactions = <<>>
  /\ xw = [w \in Workers |-> XwIdle]
  /\ uuids = 0
  /\ credits = [h \in Hashes |-> 0]
  /\ undo = [w \in Workers |-> NoUndo]
  /\ orders = <<>>
  /\ ow = OwIdle
  /\ fw = FwIdle
  /\ gw = GwIdle
  /\ reserves = <<>>
  /\ rw = [w \in Workers |-> RwIdle]
  /\ holders = [k \in LockKeys |-> {}]
  /\ ncalls = 0

NextLedger == LedgerNext(Workers, Flaky)

SpecLedger == Init /\ [][NextLedger]_vars

NextTrade == TradeNext(Workers, Flaky, Reliable, TradePairs)

SpecTrade == Init /\ [][NextTrade]_vars

\* One worker, storage that can fail.
NextTxFlaky == TxNext({"w1"}, Flaky)

SpecTxFlaky == Init /\ [][NextTxFlaky]_vars

\* Two workers, storage that does not fail.
NextTxConc == TxNext(Workers, Reliable)

SpecTxConc == Init /\ [][NextTxConc]_vars

\* One worker, storage that does not fail.
NextTxSeq == TxNext({"w1"}, Reliable)

SpecTxSeq == Init /\ [][NextTxSeq]_vars

\* The two mutation paths, ingestion and settlement, one worker, storage that can fail.
NextMutation ==
  \/ TxNext({"w1"}, Flaky)
  \/ TradeNext({"w1"}, Flaky, Reliable, TradePairs)

SpecMutation == Init /\ [][NextMutation]_vars

\* The reserve operations, two workers, storage that can fail.
NextReserve == ReserveNext(Workers, Flaky)

SpecReserve == Init /\ [][NextReserve]_vars

\* The ledger operations in sequence: one worker, storage that can fail.
NextLedgerSeq == LedgerNextTracked({"w1"}, Flaky)

SpecLedgerSeq == Init /\ [][NextLedgerSeq]_vars

\* One worker's settlements, every query of which can fail, getFees' included.
NextTradeSeq == TradeNext({"w1"}, Flaky, Flaky, TradePairs)

SpecTradeSeq == Init /\ [][NextTradeSeq]_vars

\* The fee calculator beside one worker's settlements.
NextFees ==
  \/ FeeNext(Flaky)
  \/ TradeNext({"w1"}, Reliable, Reliable, TradePairs)

SpecFees == Init /\ [][NextFees]_vars

\* The order store, storage that can fail.
NextOrders == OrderNext(Flaky)

SpecOrders == Init /\ [][NextOrders]_vars

\* One settlement worker among the calls of another that create balance rows and
\* order rows.
NextSettleAmong ==
  \/ TradeNext({"w1"}, Reliable, Reliable, TradePairs)
  \/ (SetAssetQuery("w2", Reliable) \/ SetAssetInsert("w2", Reliable)) /\ UNCHANGED undo
  \/ SetOrder(Reliable)

SpecSettleAmong == Init /\ [][NextSettleAmong]_vars

\* One reserve worker, failing statements.
NextReserveSeq == ReserveNext({"w1"}, Flaky)

SpecReserveSeq == Init /\ [][NextReserveSeq]_vars

\* The three readers, their queries failing or not, among the calls of one worker
\* that create and credit balance rows and reserve rows and insert orders: lazy
\* setAsset, setBalance and setReserve PLUS 1 on address a1, BUY orders of
\* quantity 1 and value 1.
NextReaders ==
  \/ GetBalance(Flaky)
  \/ GetReserve(Flaky)
  \/ GetOrder(Flaky)
  \/ /\ LedgerNext({"w1"}, Reliable)
     /\ ~lw'["w1"].strict /\ lw'["w1"].qty <= 1 /\ lw'["w1"].cross = Balance_PLUS
  \/ /\ SetReserveQuery("w1", Reliable)
     /\ rw'["w1"].address = "a1" /\ rw'["w1"].value = 1 /\ rw'["w1"].cross = Balance_PLUS
  \/ SetReserveInsert("w1", Reliable)
  \/ SetReserveUpdate("w1", Reliable)
  \/ /\ SetOrder(Reliable)
     /\ ow'.order.assigning = "BUY" /\ ow'.order.quantity = 1 /\ ow'.order.value = 1

SpecReaders == Init /\ [][NextReaders]_vars

\* Every operation, two workers, storage that can fail.  The claims below are
\* checked under the specification of the component they are about, where the
\* other components' variables keep their initial value.
Next ==
  \/ LedgerNext(Workers, Flaky)
  \/ TradeNext(Workers, Flaky, Flaky, TradePairs)
  \/ TxNext(Workers, Flaky)
  \/ ReserveNext(Workers, Flaky)
  \/ FeeNext(Flaky)
  \/ OrderNext(Flaky)
  \/ GetBalance(Flaky)
  \/ GetReserve(Flaky)

Spec == Init /\ [][Next]_vars

\* ------------------------------------------------------------------ balance ledger
Keys == Users \X Symbols

\* lw[w] is at the update statement of a debit larger than the stored balance.
OverDebit(w) ==
  /\ lw[w].pc = "setBalance"
  /\ lw[w].cross = Balance_MINUS
  /\ getAsset(assets, lw[w].symbol, lw[w].userId)
  /\ lw[w].qty > getBalance(assets, lw[w].symbol, lw[w].userId)

\* C1: in every reachable state every balance row is non-negative.
C1_BalanceNonNegative ==
  \A i \in 1..Len(assets) : assets[i].balance >= 0

\* C2: a debit larger than the current balance returns an error and leaves the
\* balance unchanged.
C2_OverDebitFails ==
  [][\A w \in Workers :
       (OverDebit(w) /\ lw'[w].pc = "idle")
         => (lw'[w].ret # "nil" /\ assets' = assets)]_vars

Returned(w) == tw[w].pc = "idle" /\ tw[w].called

FeeLegs(param) == {i \in 1..2 : param[i].param.fees > 0}

\* C4: a settlement that has returned wrote its trade row, both transfer rows and
\* its fee accruals, or none of them.
C4_AllOrNothing ==
  \A w \in Workers :
    Returned(w) =>
      \/ /\ tw[w].wrote.trades = 0
         /\ tw[w].wrote.transfers = <<>>
         /\ tw[w].wrote.charges = 0
      \/ /\ tw[w].wrote.trades = 1
         /\ Len(tw[w].wrote.transfers) = 2
         /\ tw[w].wrote.charges = Cardinality(FeeLegs(tw[w].arg))

\* C5: the step that enters setTrade with param[0].value = 0 returns nil and changes
\* no trade, transfer, fee counter, balance or published message.
C5_ZeroValueNoOp ==
  [][\A w \in Workers :
       (tw[w].pc = "idle" /\ tw'[w] # tw[w] /\ tw'[w].called /\ tw'[w].arg[1].value = 0)
         => /\ tw'[w].pc = "idle"
            /\ tw'[w].ret = "nil"
            /\ UNCHANGED <<trades, transfers, currencies, published, assets>>]_vars

\* A zero-value settlement has returned while the trades table holds a row.
C5_Witness ==
  \E w \in Workers :
    /\ Returned(w) /\ tw[w].arg[1].value = 0 /\ tw[w].ret = "nil"
    /\ Len(trades) > 0

\* C6: a settlement with non-zero value that returned nil inserted exactly one trade
\* row and exactly two transfer rows, of param[0]'s and of param[1]'s order id.
C6_OneTradeTwoTransfers ==
  \A w \in Workers :
    (Returned(w) /\ tw[w].ret = "nil" /\ tw[w].arg[1].value # 0)
      => /\ tw[w].wrote.trades = 1
         /\ tw[w].wrote.transfers = <<tw[w].arg[1].id, tw[w].arg[2].id>>
         /\ Len(trades) >= 1
         /\ \A i \in 1..2 : \E n \in 1..Len(transfers) :
              transfers[n].order_id = tw[w].arg[i].id

C6_Witness ==
  \E w \in Workers :
    /\ Returned(w) /\ tw[w].ret = "nil" /\ tw[w].arg[1].value # 0
    /\ Len(trades) = 1 /\ Len(transfers) = 2

\* C7: a worker that settled a pair and is handed the same pair again adds no
\* trade row, no transfer row and no fee accrual.
C7_SettleTwiceIsOnce ==
  [][\A w \in Workers :
       (/\ Returned(w) /\ tw[w].ret = "nil" /\ tw[w].arg[1].value # 0
        /\ tw'[w] # tw[w] /\ tw'[w].arg = tw[w].arg)
         => UNCHANGED <<trades, transfers, currencies>>]_vars

\* ------------------------------------------------------------------ transaction claims
NoDupHash(rows) ==
  \A i, j \in 1..Len(rows) : rows[i].hash = rows[j].hash => i = j

\* The hash is stored, and on no INTERNAL row.
StoredNotInternal(rows, hash) ==
  HashExists(rows, hash) /\ ~InternalExists(rows, hash)

\* C8: no two rows share a hash, and a call whose event's hash is stored with an
\* allocation other than INTERNAL inserts no row, changes no row and credits nothing.
C8_DuplicateIsNoOp ==
  [][/\ NoDupHash(transactions')
     /\ \A w \in Workers :
          (/\ xw[w].pc # "idle" /\ xw'[w] # xw[w]
           /\ StoredNotInternal(transactions, xw[w].ev.hash))
            => UNCHANGED <<transactions, assets, credits>>]_vars

AllReturned == \A w \in Workers : xw[w].pc = "idle" /\ xw[w].called

\* C9: after two workers have ingested an event with the same hash, exactly one
\* row with that hash exists.
C9_ConcurrentSameHashOneRow ==
  \A h \in EventHashes \ {""} :
    (AllReturned /\ \A w \in Workers : xw[w].ev.hash = h)
      => Cardinality(HashRows(transactions, h)) = 1

\* C10: over the whole history of a hash, confirmation invokes the balance or
\* reserve adjust at most once.
C10_CreditedOnce ==
  \A h \in Hashes : credits[h] <= 1

\* ------------------------------------------------------------------ reserve claims
\* Some row of the lock key has its flag set.
KeyLocked(rows, userId, symbol) ==
  \E i \in 1..Len(rows) :
    LockMatch(rows[i], userId, symbol, Platform, Protocol) /\ rows[i].lock

\* C11: setReserveLock on a key whose flag is set fails with ReserveBusy and leaves
\* the rows as they are; on a key with rows whose flag is not set (as after
\* setReserveUnlock) it returns nil, unless the statement fails, and sets the flag.
C11_LockBusyWhenHeld ==
  [][\A w \in Workers :
       SetReserveLock(w, Flaky) =>
         IF KeyLocked(reserves, rw'[w].user_id, rw'[w].symbol)
         THEN rw'[w].ret = "ReserveBusy" /\ reserves' = reserves
         ELSE rw'[w].ret = "nil" => reserves' = UpdateLock(reserves, rw'[w].user_id,
                                       rw'[w].symbol, Platform, Protocol, TRUE)]_vars

\* C12: between two unlocks of a key, at most one worker's setReserveLock set the
\* key's flag and returned nil.
C12_LockMutuallyExclusive ==
  \A k \in LockKeys : Cardinality(holders[k]) <= 1

\* C13: a step of setReserve that changes the rows of a key is never taken while
\* another worker's lock of that key is in force.
C13_NoAdjustUnderForeignLock ==
  [][\A w \in Workers :
       (rw[w].pc \in {"update", "insert"} /\ rw'[w] # rw[w] /\ reserves' # reserves)
         => holders[<<rw[w].user_id, rw[w].symbol>>] \subseteq {w}]_vars

\* C14: in every reachable state the value of every reserve row is non-negative.
C14_ReserveNonNegative ==
  \A i \in 1..Len(reserves) : reserves[i].value >= 0

\* C15: a setReserve that returns nil changes the total of its symbol, platform and
\* protocol by exactly the signed delta: +value for PLUS, -value for MINUS, whether
\* its row existed or was inserted.
C15_AdjustBySignedDelta ==
  [][\A w \in Workers :
       (rw[w].pc \in {"update", "insert"} /\ rw'[w].pc = "idle" /\ rw'[w].ret = "nil")
         => getReserve(reserves', rw[w].symbol, Platform, Protocol)
              = getReserve(reserves, rw[w].symbol, Platform, Protocol)
                  + Signed(rw[w].value, rw[w].cross)]_vars

\* ------------------------------------------------------------------ ingestion claims
\* Worker w takes a step of its setTransaction call.
XwStep(w) == xw'[w] # xw[w]

\* C16: every step of a call whose event's hash was stored on an INTERNAL row either
\* moves on to its next statement without touching the table, or returns an
\* error without touching it, or is the update: it sets assignment
\* DEPOSIT and status PENDING on the rows of that hash, adds no row, changes no
\* other field and no other row, and returns nil.
C16_InternalReflag ==
  [][\A w \in Workers :
       (XwStep(w) /\ xw'[w].internal)
         => \/ xw'[w].pc # "idle" /\ transactions' = transactions
            \/ xw'[w].pc = "idle" /\ xw'[w].ret # "nil" /\ transactions' = transactions
            \/ /\ xw[w].pc = "reflag" /\ xw'[w].pc = "idle" /\ xw'[w].ret = "nil"
               /\ Len(transactions') = Len(transactions)
               /\ \A i \in 1..Len(transactions) :
                    transactions'[i] =
                      IF transactions[i].hash = xw[w].ev.hash
                      THEN [transactions[i] EXCEPT !.assignment = Assignment_DEPOSIT,
                                                   !.status = Status_PENDING]
                      ELSE transactions[i]]_vars

\* The row the insert of worker w's call is to add.
EventRow(w) ==
  [id |-> Len(transactions) + 1,
   hash |-> IF xw[w].ev.hash = "" THEN Uuids[uuids + 1] ELSE xw[w].ev.hash,
   allocation |-> xw[w].ev.allocation, assignment |-> xw[w].ev.assignment,
   status |-> Status_PENDING, chain_id |-> xw[w].ev.chain_id]

\* The call of worker w returns the row it inserted, PENDING, and no error.
ReturnsCreated(w) ==
  /\ xw'[w].pc = "idle" /\ xw'[w].out = "tx" /\ xw'[w].ret = "nil"
  /\ xw'[w].tx.status = Status_PENDING
  /\ xw'[w].tx.id \in 1..Len(transactions)
  /\ transactions[xw'[w].tx.id].hash = xw'[w].tx.hash
  /\ xw'[w].tx.allocation = xw[w].ev.allocation
  /\ xw'[w].tx.assignment = xw[w].ev.assignment

\* The first two statements of a call whose event's hash is not stored: the lookup
\* leads to the insert, the insert appends one row carrying the event's fields.
InsertsEventRow(w) ==
  /\ (xw[w].pc = "idle" /\ XwStep(w) /\ ~HashExists(transactions, xw'[w].ev.hash))
       => xw'[w].pc = "insert" /\ transactions' = transactions
  /\ (xw[w].pc = "insert" /\ XwStep(w))
       => xw'[w].pc = "chain" /\ transactions' = Append(transactions, EventRow(w))

XwReturned(w) == xw[w].pc = "idle" /\ xw[w].called

\* C18: a setTransaction that returned an error inserted and updated no row; a
\* setTrade that returned an error inserted no trade row and no transfer row and
\* accrued no fee.
C18_ErrorCommitsNothing ==
  \A w \in Workers :
    /\ (XwReturned(w) /\ xw[w].ret # "nil") => xw[w].wrote = 0
    /\ (Returned(w) /\ tw[w].ret # "nil")
         => /\ tw[w].wrote.trades = 0
            /\ tw[w].wrote.transfers = <<>>
            /\ tw[w].wrote.charges = 0

\* C19: a setTransaction one of whose statements failed returns a non-nil error.
C19_StorageFailureSurfaced ==
  \A w \in Workers :
    (XwReturned(w) /\ xw[w].failed) => xw[w].ret # "nil"

\* C20: a setTrade that returned because a notification or a candle publish failed
\* has inserted both transfer rows and accrued the fees of both legs.
C20_SideChannelNeverBlocks ==
  \A w \in Workers :
    (Returned(w) /\ tw[w].ret \in {"PublishFailure", "CandlesFailure"})
      => /\ Len(tw[w].wrote.transfers) = 2
         /\ tw[w].wrote.charges = Cardinality(FeeLegs(tw[w].arg))

\* ------------------------------------------------------------------ leg resolution claims
\* Worker w's step inserts the transfer row of leg tw[w].i.
InsertsTransfer(w) ==
  /\ tw[w].pc = "transfer" /\ tw'[w] # tw[w]
  /\ Len(transfers') = Len(transfers) + 1

\* The legs of a pair that carry the maker flag.
Makers(arg) == {m \in 1..2 : arg[m].param.maker}

\* C21: the transfer row of a leg carries the price of the pair's maker order, and
\* the leg's own price when the pair has no maker.
C21_MakerPriceWins ==
  [][\A w \in Workers :
       InsertsTransfer(w) =>
         LET arg == tw[w].arg
             i == tw[w].i IN
         transfers'[Len(transfers')].price =
           IF Makers(arg) = {} THEN arg[i].price ELSE arg[Min(Makers(arg))].price]_vars

\* C22: the transfer row of a leg, index 0 or index 1, carries the counterparty's
\* value when the leg's match is equal-quantity and the leg's own value when not.
C22_QuantityByEqual ==
  [][\A w \in Workers :
       InsertsTransfer(w) =>
         LET arg == tw[w].arg
             i == tw[w].i IN
         transfers'[Len(transfers')].quantity =
           IF arg[i].param.equal THEN arg[3 - i].value ELSE arg[i].value]_vars

\* C23: the transfer row of a leg carries the rate of the leg's quote currency:
\* fees_trade less fees_discount when the leg has the maker flag, fees_trade when not.
C23_TransferFeeIsRate ==
  [][\A w \in Workers :
       InsertsTransfer(w) =>
         LET leg == tw[w].arg[tw[w].i]
             c == currencies[leg.quote_unit] IN
         transfers'[Len(transfers')].fees =
           IF leg.param.maker THEN c.fees_trade - c.fees_discount ELSE c.fees_trade]_vars

C25_UnknownSymbolNotFound ==
  (fw.called /\ fw.symbol \notin DOMAIN currencies) => fw.ret = "NotFound"

\* C30: getSum of a value v returns a balance and a fee that add up to v; for a
\* symbol with a currency record the fee is v * r / 100, r being fees_trade, less
\* fees_discount for a maker, and the balance is v less that fee.
C30_GrossToNet ==
  fw.op = "getSum" =>
    /\ fw.balance + fw.fees = fw.value
    /\ fw.symbol \in DOMAIN currencies =>
         LET c == currencies[fw.symbol]
             r == IF fw.maker THEN c.fees_trade - c.fees_discount ELSE c.fees_trade IN
         fw.fees * 100 = fw.value * r /\ fw.balance = fw.value - fw.fees

\* ------------------------------------------------------------------ sequential ledger claims
\* C26: no (userId, symbol) ever has two balance rows.  The select of setAsset
\* changes no row; on a key with a row it returns 700991 in strict mode and nil in
\* lazy mode; on a key without one the insert follows, which appends the row with
\* balance 0 and returns nil.  A failed statement returns its error and changes nothing.
C26_EnsureAssetIdempotent ==
  [][/\ \A k \in Keys : Cardinality(AssetRows(assets', k[2], k[1])) <= 1
     /\ \A w \in Workers :
          LET c == lw'[w] IN
          /\ (lw[w].pc = "idle" /\ c # lw[w] /\ c.op = "setAsset")
               => /\ assets' = assets
                  /\ \/ c.pc = "idle" /\ c.ret = "StorageFailure"
                     \/ IF AssetRows(assets, c.symbol, c.userId) # {}
                        THEN c.pc = "idle" /\ c.ret = IF c.strict THEN "700991" ELSE "nil"
                        ELSE c.pc = "setAsset_insert"
          /\ (lw[w].pc = "setAsset_insert" /\ c # lw[w])
               => /\ c.pc = "idle"
                  /\ \/ c.ret = "StorageFailure" /\ assets' = assets
                     \/ /\ c.ret = "nil"
                        /\ assets' = Append(assets, [user_id |-> c.userId,
                                                     symbol |-> c.symbol, balance |-> 0])]_vars

\* A strict setAsset has returned 700991 on a key whose one row holds a balance.
C26_Witness ==
  \E w \in Workers :
    /\ lw[w].pc = "idle" /\ lw[w].op = "setAsset" /\ lw[w].ret = "700991"
    /\ Cardinality(AssetRows(assets, lw[w].symbol, lw[w].userId)) = 1
    /\ getBalance(assets, lw[w].symbol, lw[w].userId) > 0

C27_ReadYourWrites ==
  (ow.ret = "nil" /\ ow.read /\ ow.asked = ow.id /\ ow.got.id = ow.id) =>
    /\ ow.got.user_id = ow.order.user_id
    /\ ow.got.base_unit = ow.order.base_unit
    /\ ow.got.quote_unit = ow.order.quote_unit
    /\ ow.got.assigning = ow.order.assigning
    /\ ow.got.price = ow.order.price
    /\ ow.got.quantity = ow.order.quantity
    /\ ow.got.value = ow.order.value

\* ------------------------------------------------------------------ audit trail claims
\* The rows of a table before a step are the first rows of the table after it.
KeepsRows(before, after) ==
  /\ Len(before) <= Len(after)
  /\ \A n \in 1..Len(before) : after[n] = before[n]

\* C29: every step leaves each row of trades and of transfers in place and as it
\* was: the two tables only grow, at their end.
C29_AppendOnly ==
  [][KeepsRows(trades, trades') /\ KeepsRows(transfers, transfers')]_vars

\* Two settlements have returned nil: two trade rows and four transfer rows stand.
C29_Witness ==
  /\ \A w \in Workers : Returned(w) /\ tw[w].ret = "nil" /\ ~TradeRejected(tw[w].arg)
  /\ Len(trades) = 2
  /\ Len(transfers) = 4

\* ------------------------------------------------------------------ ingestion claims
\* C31: when a first ingestion has returned its transaction, neither the row it
\* inserted nor the transaction it returned carries the chain id, and the embedded
\* chain carries no rpc endpoint.
C31_StripBeforePersist ==
  \A w \in Workers :
    (XwReturned(w) /\ xw[w].out = "tx" /\ xw[w].ret = "nil" /\ xw[w].wrote = 1) =>
      /\ xw[w].tx.chain_id = 0
      /\ xw[w].tx.chain.rpc = ""
      /\ transactions[xw[w].tx.id].chain_id = 0

\* C32: the insert step of an event with a hash stores the row under that hash and
\* takes no uuid; the insert step of an event without one takes the next uuid, a
\* hash no row has, and stores the row under it, or fails and stores nothing; an
\* event without a hash always reaches the insert step; no other step takes a uuid
\* and no stored row has an empty hash.
C32_SyntheticHashOnlyForEmpty ==
  [][/\ \A n \in 1..Len(transactions') : transactions'[n].hash # ""
     /\ \A w \in Workers :
          /\ (xw[w].pc = "idle" /\ XwStep(w) /\ xw'[w].ev.hash = "") => xw'[w].pc = "insert"
          /\ (xw[w].pc = "insert" /\ XwStep(w)) =>
               LET hash == IF xw[w].ev.hash = "" THEN Uuids[uuids + 1] ELSE xw[w].ev.hash IN
               /\ uuids' = IF xw[w].ev.hash = "" THEN uuids + 1 ELSE uuids
               /\ xw'[w].tx.hash = hash
               /\ xw[w].ev.hash = "" => ~HashExists(transactions, hash)
               /\ \/ xw'[w].ret = "StorageFailure" /\ transactions' = transactions
                  \/ /\ Len(transactions') = Len(transactions) + 1
                     /\ transactions'[Len(transactions')].hash = hash
          /\ (xw[w].pc # "insert" /\ XwStep(w)) => uuids' = uuids]_vars

\* Two events without a hash and one with hash h1 have been stored: three rows,
\* two under generated hashes and one under h1.
C32_Witness ==
  /\ Len(transactions) = 3
  /\ {transactions[n].hash : n \in 1..3} = {Uuids[1], Uuids[2], "h1"}
  /\ uuids = 2

\* C33: no step of setTransaction changes the status or the assignment of a row
\* that is CONFIRMED.
C33_ConfirmedStaysConfirmed ==
  [][\A w \in Workers :
       XwStep(w) =>
         \A n \in 1..Len(transactions) :
           transactions[n].status = Status_CONFIRMED =>
             /\ transactions'[n].status = Status_CONFIRMED
             /\ transactions'[n].assignment = transactions[n].assignment]_vars

\* ------------------------------------------------------------------ missing-row claims
\* C34: the statement of a setBalance on a (userId, symbol) without a balance row
\* leaves table assets as it is, so the key still has no row and getBalance still
\* returns 0, and the call returns nil, or the error of a statement that failed.
C34_AdjustWithoutRowIsLost ==
  [][\A w \in Workers :
       (/\ lw[w].pc = "setBalance" /\ lw'[w] # lw[w]
        /\ ~getAsset(assets, lw[w].symbol, lw[w].userId))
         => /\ assets' = assets
            /\ ~getAsset(assets', lw[w].symbol, lw[w].userId)
            /\ getBalance(assets', lw[w].symbol, lw[w].userId) = 0
            /\ lw'[w].pc = "idle"
            /\ lw'[w].ret \in {"nil", "StorageFailure"}]_vars

\* A setBalance PLUS has returned nil on a key that has no row, while the other
\* symbol of the user has one.
C34_Witness ==
  \E w \in Workers :
    /\ lw[w].pc = "idle" /\ lw[w].op = "setBalance" /\ lw[w].ret = "nil"
    /\ lw[w].cross = Balance_PLUS
    /\ ~getAsset(assets, lw[w].symbol, lw[w].userId)
    /\ getBalance(assets, lw[w].symbol, lw[w].userId) = 0
    /\ Len(assets) > 0

\* C35: when the setAsset calls of all workers have returned, a (userId, symbol)
\* for which one of them returned nil has exactly one balance row.
C35_ConcurrentEnsureOneRow ==
  (\A w \in Workers : lw[w].pc = "idle") =>
    \A w \in Workers :
      (lw[w].op = "setAsset" /\ lw[w].ret = "nil") =>
        Cardinality(AssetRows(assets, lw[w].symbol, lw[w].userId)) = 1

\* ------------------------------------------------------------------ concurrent reserve claims
\* The rows of a (userId, symbol, platform, protocol, address).
ReserveRows(rows, userId, symbol, address) ==
  {i \in 1..Len(rows) : ReserveMatch(rows[i], userId, symbol, Platform, Protocol, address)}

\* C36: when the first two calls on the reserves are setReserve calls of the two
\* workers for one key and both have returned nil, the key has exactly one row and
\* getReserve returns the sum of the two signed deltas.
C36_ConcurrentAdjustOneRow ==
  (/\ ncalls = 2
   /\ \A w \in Workers : rw[w].pc = "idle" /\ rw[w].op = "setReserve" /\ rw[w].ret = "nil"
   /\ rw["w1"].user_id = rw["w2"].user_id /\ rw["w1"].symbol = rw["w2"].symbol
   /\ rw["w1"].address = rw["w2"].address)
    => /\ Cardinality(ReserveRows(reserves, rw["w1"].user_id, rw["w1"].symbol,
                                  rw["w1"].address)) = 1
       /\ getReserve(reserves, rw["w1"].symbol, Platform, Protocol)
            = Signed(rw["w1"].value, rw["w1"].cross) + Signed(rw["w2"].value, rw["w2"].cross)

\* ------------------------------------------------------------------ settlement frame claims
\* Worker w takes a step of its setTrade call.
TwStep(w) == tw'[w] # tw[w]

\* C37: a step of setTrade changes no row of assets, reserves or orders; it adds at
\* most one row to trades, and only as the call's first statement, at most one row
\* to transfers, and only in a leg's transfer step, of which a call has two; of a
\* currency it changes nothing but fees_charges, which it never lowers.
C37_SettlementFrame ==
  [][\A w \in Workers :
       TwStep(w) =>
         /\ UNCHANGED <<assets, reserves, orders>>
         /\ KeepsRows(trades, trades')
         /\ Len(trades') <= Len(trades) + (IF tw[w].pc = "idle" THEN 1 ELSE 0)
         /\ KeepsRows(transfers, transfers')
         /\ Len(transfers') <= Len(transfers) + (IF tw[w].pc = "transfer" THEN 1 ELSE 0)
         /\ tw[w].pc = "transfer" => tw[w].i \in 1..2 /\ Len(tw[w].wrote.transfers) = tw[w].i - 1
         /\ \A c \in DOMAIN currencies :
              /\ currencies'[c] = [currencies[c] EXCEPT !.fees_charges = currencies'[c].fees_charges]
              /\ currencies'[c].fees_charges >= currencies[c].fees_charges]_vars

\* A settlement has returned nil after one trade row, two transfer rows and an
\* accrual, while a balance row and an order row were stored.
C37_Witness ==
  /\ Returned("w1") /\ tw["w1"].ret = "nil"
  /\ Len(trades) = 1 /\ Len(transfers) = 2
  /\ \E c \in DOMAIN currencies : currencies[c].fees_charges > 0
  /\ Len(assets) > 0 /\ Len(orders) > 0

\* C38: before and after every step table transfers has at most twice the rows of
\* table trades; a transfer row is inserted only by a call whose trade insert
\* succeeded, and that of the second leg only after the first leg's transfer row,
\* its accrual when it has a fee, and its notification.
C38_TransfersWithinTrades ==
  [][/\ Len(transfers) <= 2 * Len(trades)
     /\ Len(transfers') <= 2 * Len(trades')
     /\ \A w \in Workers :
          InsertsTransfer(w) =>
            /\ tw[w].wrote.trades = 1
            /\ tw[w].i = 2 =>
                 /\ tw[w].wrote.transfers = <<tw[w].arg[1].id>>
                 /\ tw[w].wrote.charges = Cardinality(FeeLegs(tw[w].arg) \cap {1})
                 /\ tw[w].wrote.published = 1]_vars

\* One settlement went through and the other failed after its first leg's transfer:
\* two trade rows and three transfer rows.
C38_Witness ==
  /\ \A w \in Workers : Returned(w)
  /\ \E w \in Workers : tw[w].ret = "nil"
  /\ \E w \in Workers : tw[w].ret # "nil" /\ Len(tw[w].wrote.transfers) = 1
  /\ Len(trades) = 2
  /\ Len(transfers) = 3

\* ------------------------------------------------------------------ reserve lock claims
\* The rows of a (userId, symbol, platform, protocol), whatever the address.
LockRows(rows, userId, symbol) ==
  {i \in 1..Len(rows) : LockMatch(rows[i], userId, symbol, Platform, Protocol)}

\* C39: a setReserveLock or setReserveUnlock returns nil unless its statement
\* failed, and a failed one changes nothing; one that returns nil sets the flag of
\* every row of its key, whatever the address, and changes nothing else, so on a
\* key without a row it changes nothing at all; a row that setReserve inserts is
\* unlocked, whatever was locked before.
C39_LockTouchesAllRowsOfKey ==
  [][\A w \in Workers :
       /\ (/\ rw[w].pc = "idle" /\ rw'[w] # rw[w]
           /\ rw'[w].op \in {"setReserveLock", "setReserveUnlock"})
            => LET key == LockRows(reserves, rw'[w].user_id, rw'[w].symbol) IN
               /\ rw'[w].pc = "idle"
               /\ rw'[w].ret \in {"nil", "StorageFailure"}
               /\ rw'[w].ret # "nil" => reserves' = reserves
               /\ key = {} => reserves' = reserves
               /\ rw'[w].ret = "nil" =>
                    /\ Len(reserves') = Len(reserves)
                    /\ \A i \in 1..Len(reserves) :
                         reserves'[i] =
                           IF i \in key
                           THEN [reserves[i] EXCEPT !.lock = (rw'[w].op = "setReserveLock")]
                           ELSE reserves[i]
       /\ (rw[w].pc = "insert" /\ rw'[w] # rw[w] /\ rw'[w].ret = "nil")
            => /\ Len(reserves') = Len(reserves) + 1
               /\ ~reserves'[Len(reserves')].lock]_vars

\* A setReserveLock has returned nil on a key with rows of two addresses: both
\* rows carry the flag.
C39_Witness ==
  \E w \in Workers :
    /\ rw[w].pc = "idle" /\ rw[w].op = "setReserveLock" /\ rw[w].ret = "nil"
    /\ Cardinality(LockRows(reserves, rw[w].user_id, rw[w].symbol)) = 2
    /\ {reserves[i].address : i \in LockRows(reserves, rw[w].user_id, rw[w].symbol)} = Addresses
    /\ \A i \in LockRows(reserves, rw[w].user_id, rw[w].symbol) : reserves[i].lock

\* ------------------------------------------------------------------ reader claims
\* The stored rows of every table.
tables == <<assets, reserves, orders, trades, transfers, currencies, transactions>>

\* C40: a getBalance, getReserve or getOrder changes no stored row; asked for a
\* (userId, symbol) without a balance row getBalance returns 0, for a symbol without
\* a reserve row getReserve returns 0, and for an id without an order row getOrder
\* returns the zero order.
C40_ReadersReadOnly ==
  [][/\ gw' # gw =>
          /\ UNCHANGED tables
          /\ (gw'.op = "getBalance" /\ ~getAsset(assets, gw'.symbol, gw'.userId))
               => gw'.value = 0
          /\ (/\ gw'.op = "getReserve"
              /\ \A n \in 1..Len(reserves) :
                   ~TotalMatch(reserves[n], gw'.symbol, Platform, Protocol))
               => gw'.value = 0
     /\ (ow' # ow /\ ncalls' = ncalls) =>
          /\ UNCHANGED tables
          /\ ow'.read
          /\ (\A n \in 1..Len(orders) : orders[n].id # ow'.asked) => ow'.got = NoOrder]_vars

\* Each reader was asked for something without a row while the tables held a
\* credited balance row, a reserve row and an order row, and answered zero.
C40_Witness ==
  /\ gw.op = "getBalance" /\ ~getAsset(assets, gw.symbol, gw.userId) /\ gw.value = 0
  /\ \E n \in 1..Len(assets) : assets[n].balance > 0
  /\ Len(reserves) > 0
  /\ Len(orders) > 0
  /\ ow.read /\ ow.got = NoOrder /\ \A n \in 1..Len(orders) : orders[n].id # ow.asked

====
